---- MODULE Spec2Model ----
(***************************************************************************)
(* A model of ParOptProblem (src/src/ParOptProblem.h), the abstract        *)
(* problem class of the parallel optimizer: the size and communicator      *)
(* bookkeeping, the default vector factory and the default (non-pure)      *)
(* virtual hooks.                                                          *)
(*                                                                         *)
(* The object is the record prob with the fields comm, nvars, ncon, nwcon, *)
(* nwblock of the class.  Every member function is an operator that maps  *)
(* the state it reads to the state it leaves, and an action applies it to  *)
(* inputs drawn from small sets.                                           *)
(*                                                                         *)
(*   Spec        the size and communicator bookkeeping                     *)
(*   SpecVec     the vector factory and the default hooks                  *)
(*   SpecRun     an Engine run on the problem                              *)
(*   SpecSparse  the sparse accumulate operations of a concrete problem    *)
(***************************************************************************)
EXTENDS Integers, Sequences, FiniteSets, TLC

VARIABLES
  prob,   \* the ParOptProblem object: [comm, nvars, ncon, nwcon, nwblock]
  vecs,   \* the heap of ParOptVec objects; a vector's id is its index
  z,      \* the caller's dense multiplier array (ParOptScalar *z)
  outs,   \* the caller's four int locations handed to getProblemSizes
  ret,    \* what the last call returned
  last,   \* the last call: [op, args]
  hist,   \* history: the constructor's communicator, and the sizes last
          \* declared (by a constructor or by setProblemSizes) and by whom
  eng,    \* the Engine driving the problem: whether a run is active, the
          \* sizes it queried and the vectors it created
  sp      \* a concrete problem's sparse accumulation in progress: the
          \* operation, its x and direction, the destination buffer

vars == <<prob, vecs, z, outs, ret, last, hist, eng, sp>>

----------------------------------------------------------------------------
(* Bounds of the model *)

\* sizes handed to the constructor and to setProblemSizes are 0..MaxSize
MaxSize == 1

SizeVals == 0..MaxSize

\* the communicators a problem may be constructed with
Comms == {"COMM_A", "COMM_B"}

\* vector lengths (nvars, nwcon) where vectors are created are 0..MaxLen
MaxLen == 1

LenVals == 0..MaxLen

\* at most MaxVecs vectors are allocated
MaxVecs == 2

\* the content of a caller's int before getProblemSizes ever wrote it
Unset == 0 - 1

Void == "void"

----------------------------------------------------------------------------
(* The class *)

\* ParOptProblem( MPI_Comm _comm )
ParOptProblem1(_comm) ==
  [comm |-> _comm, nvars |-> 0, ncon |-> 0, nwcon |-> 0, nwblock |-> 0]

\* ParOptProblem( MPI_Comm _comm, int _nvars, int _ncon, int _nwcon, int _nwblock )
ParOptProblem5(_comm, _nvars, _ncon, _nwcon, _nwblock) ==
  [comm |-> _comm, nvars |-> _nvars, ncon |-> _ncon,
   nwcon |-> _nwcon, nwblock |-> _nwblock]

\* MPI_Comm getMPIComm()
getMPIComm(p) == p.comm

\* setProblemSizes with the dense and sparse constraint counts crossed
setProblemSizes_crossed(p, _nvars, _ncon, _nwcon, _nwblock) ==
  [p EXCEPT !.nvars = _nvars, !.ncon = _nwcon,
            !.nwcon = _ncon, !.nwblock = _nwblock]

\* void setProblemSizes( int _nvars, int _ncon, int _nwcon, int _nwblock )
setProblemSizes(p, _nvars, _ncon, _nwcon, _nwblock) ==
  [p EXCEPT !.nvars = _nvars, !.ncon = _ncon,
            !.nwcon = _nwcon, !.nwblock = _nwblock]

\* getProblemSizes testing _nvars where it should test _ncon
getProblemSizes_wrongtest(p, o, m) ==
  << IF m[1] = 1 THEN p.nvars   ELSE o[1],
     IF m[1] = 1 THEN p.ncon    ELSE o[2],
     IF m[3] = 1 THEN p.nwcon   ELSE o[3],
     IF m[4] = 1 THEN p.nwblock ELSE o[4] >>

\* void getProblemSizes( int *_nvars, int *_ncon, int *_nwcon, int *_nwblock )
\* o holds the four pointed-to ints, m[i] = 1 when the i-th pointer is non-null
getProblemSizes(p, o, m) ==
  << IF m[1] = 1 THEN p.nvars   ELSE o[1],
     IF m[2] = 1 THEN p.ncon    ELSE o[2],
     IF m[3] = 1 THEN p.nwcon   ELSE o[3],
     IF m[4] = 1 THEN p.nwblock ELSE o[4] >>

\* the Size Descriptor held by the object
Sizes(p) == <<p.nvars, p.ncon, p.nwcon, p.nwblock>>

----------------------------------------------------------------------------
(* Vectors (ParOptVec.h is not part of the sources: modelled from the      *)
(* specification's Distributed Vector)                                     *)

\* new ParOptBasicVec(comm, n): a vector of n entries bound to comm
ParOptBasicVec(c, n) == [comm |-> c, size |-> n, x |-> [i \in 1..n |-> 0]]

\* what a read past the end of a vector's storage may yield
Indeterminate == {0, 1}

\* out->copyValues(in): the value copy of in into out, entry by entry over
\* out's length.  Where in is shorter than out the entries past in's end are
\* read from outside its storage.  The set of vectors out may become.
copyValues(out, in) ==
  { [out EXCEPT !.x = s] :
      s \in { t \in [1..out.size -> Indeterminate \cup {in.x[i] : i \in 1..in.size}] :
                \A i \in 1..out.size : i <= in.size => t[i] = in.x[i] } }

\* the memory the member functions below work on: the object, the vectors
\* and the caller's multiplier array
Mem(p, h, zz) == [prob |-> p, vecs |-> h, z |-> zz]

----------------------------------------------------------------------------
(* The default vector factory and the default hooks.  Each operator maps   *)
(* the memory st and the arguments to the memory left and the value        *)
(* returned; a vector pointer is the vector's index in st.vecs.            *)

\* createDesignVec binding the vector to the world communicator
createDesignVec_world(st) ==
  [st  |-> [st EXCEPT !.vecs = Append(st.vecs, ParOptBasicVec("MPI_COMM_WORLD", st.prob.nvars))],
   ret |-> Len(st.vecs) + 1]

\* virtual ParOptVec *createDesignVec()
createDesignVec(st) ==
  [st  |-> [st EXCEPT !.vecs = Append(st.vecs, ParOptBasicVec(st.prob.comm, st.prob.nvars))],
   ret |-> Len(st.vecs) + 1]

\* createConstraintVec sized like a design vector
createConstraintVec_nvars(st) ==
  [st  |-> [st EXCEPT !.vecs = Append(st.vecs, ParOptBasicVec(st.prob.comm, st.prob.nvars))],
   ret |-> Len(st.vecs) + 1]

\* virtual ParOptVec *createConstraintVec()
createConstraintVec(st) ==
  [st  |-> [st EXCEPT !.vecs = Append(st.vecs, ParOptBasicVec(st.prob.comm, st.prob.nwcon))],
   ret |-> Len(st.vecs) + 1]

\* evalHessianDiag writing the identity's diagonal
evalHessianDiag_ones(st, x, zw, hdiag) ==
  [st  |-> [st EXCEPT !.vecs[hdiag].x = [i \in 1..st.vecs[hdiag].size |-> 1]],
   ret |-> 0]

\* virtual int evalHessianDiag( x, z, zw, hdiag )
evalHessianDiag(st, x, zw, hdiag) == [st |-> st, ret |-> 0]

\* setUpHessianPrecon reporting failure
setUpHessianPrecon_fails(st, x, zw) == [st |-> st, ret |-> 1]

\* virtual int setUpHessianPrecon( x, z, zw )
setUpHessianPrecon(st, x, zw) == [st |-> st, ret |-> 0]

\* applyHessianPrecon copying the wrong way round: in->copyValues(out)
applyHessianPrecon_reversed(st, x, zw, in, out) ==
  { [st |-> [st EXCEPT !.vecs[in] = o], ret |-> 0] :
      o \in copyValues(st.vecs[in], st.vecs[out]) }

\* virtual int applyHessianPrecon( x, z, zw, in, out ): the set of outcomes
applyHessianPrecon(st, x, zw, in, out) ==
  { [st |-> [st EXCEPT !.vecs[out] = o], ret |-> 0] :
      o \in copyValues(st.vecs[out], st.vecs[in]) }

\* virtual void writeOutput( int iter, ParOptVec *x )
writeOutput(st, iter, x) == [st |-> st, ret |-> Void]

----------------------------------------------------------------------------
(* State after construction *)

Masks == [1..4 -> {0, 1}]

\* four non-null outputs
AllOutputs == <<1, 1, 1, 1>>

InitCommon ==
  /\ vecs = <<>>
  /\ z = <<1>>
  /\ outs = <<Unset, Unset, Unset, Unset>>
  /\ ret = Void
  /\ last = [op |-> "new", args |-> <<>>]
  /\ eng = [run |-> "idle", sizes |-> <<>>, x |-> 0, design |-> {}]
  /\ sp = [op |-> "none", x |-> <<>>, p |-> <<>>, base |-> <<>>,
           dst |-> <<>>, pre |-> <<>>, asum |-> 0]

Init ==
  /\ InitCommon
  /\ \E c \in Comms :
       \/ /\ prob = ParOptProblem1(c)
          /\ hist = [comm |-> c, by |-> "ctor1", sizes |-> <<0, 0, 0, 0>>]
       \/ \E n \in SizeVals, m \in SizeVals, w \in SizeVals, b \in SizeVals :
            /\ prob = ParOptProblem5(c, n, m, w, b)
            /\ hist = [comm |-> c, by |-> "ctor5", sizes |-> <<n, m, w, b>>]

----------------------------------------------------------------------------
(* Calls *)

SetProblemSizes(n, m, w, b) ==
  /\ prob' = setProblemSizes(prob, n, m, w, b)
  /\ hist' = [hist EXCEPT !.by = "set", !.sizes = <<n, m, w, b>>]
  /\ ret' = Void
  /\ last' = [op |-> "setProblemSizes", args |-> <<n, m, w, b>>]
  /\ UNCHANGED <<vecs, z, outs, eng, sp>>

GetProblemSizes(m) ==
  /\ outs' = getProblemSizes(prob, outs, m)
  /\ ret' = Void
  /\ last' = [op |-> "getProblemSizes", args |-> m]
  /\ UNCHANGED <<prob, vecs, z, hist, eng, sp>>

GetMPIComm ==
  /\ ret' = getMPIComm(prob)
  /\ last' = [op |-> "getMPIComm", args |-> <<>>]
  /\ UNCHANGED <<prob, vecs, z, outs, hist, eng, sp>>

\* the memory after a call and the value it returned
Returns(r, op, args) ==
  /\ prob' = r.st.prob
  /\ vecs' = r.st.vecs
  /\ z' = r.st.z
  /\ ret' = r.ret
  /\ last' = [op |-> op, args |-> args]
  /\ UNCHANGED <<outs, hist, eng, sp>>

Ids == DOMAIN vecs

CreateDesignVec ==
  /\ Len(vecs) < MaxVecs
  /\ Returns(createDesignVec(Mem(prob, vecs, z)), "createDesignVec", <<>>)

CreateConstraintVec ==
  /\ Len(vecs) < MaxVecs
  /\ Returns(createConstraintVec(Mem(prob, vecs, z)), "createConstraintVec", <<>>)

\* the owner of vector v writes its entries: entry i becomes i
FillVec(v) ==
  /\ vecs' = [vecs EXCEPT ![v].x = [i \in 1..vecs[v].size |-> i]]
  /\ ret' = Void
  /\ last' = [op |-> "fill", args |-> <<v>>]
  /\ UNCHANGED <<prob, z, outs, hist, eng, sp>>

EvalHessianDiag(x, zw, hdiag) ==
  Returns(evalHessianDiag(Mem(prob, vecs, z), x, zw, hdiag), "evalHessianDiag", <<hdiag>>)

SetUpHessianPrecon(x, zw) ==
  Returns(setUpHessianPrecon(Mem(prob, vecs, z), x, zw), "setUpHessianPrecon", <<x>>)

ApplyHessianPrecon(x, zw, in, out) ==
  \E r \in applyHessianPrecon(Mem(prob, vecs, z), x, zw, in, out) :
    Returns(r, "applyHessianPrecon", <<in, out>>)

WriteOutput(iter, x) ==
  Returns(writeOutput(Mem(prob, vecs, z), iter, x), "writeOutput", <<x>>)

Next ==
  \/ \E n \in SizeVals, m \in SizeVals, w \in SizeVals, b \in SizeVals :
       SetProblemSizes(n, m, w, b)
  \/ \E m \in Masks : GetProblemSizes(<<m[1], m[2], m[3], m[4]>>)
  \/ GetMPIComm

Spec == Init /\ [][Next]_vars

----------------------------------------------------------------------------
(* The factory and the default hooks, on a problem whose vector lengths    *)
(* may be declared again at any time                                       *)

\* a problem built by the one-argument constructor, which declares its
\* sizes by setProblemSizes
InitVec ==
  /\ InitCommon
  /\ \E c \in Comms :
       /\ prob = ParOptProblem1(c)
       /\ hist = [comm |-> c, by |-> "ctor1", sizes |-> <<0, 0, 0, 0>>]

NextVec ==
  \/ \E n \in LenVals, w \in LenVals :
       SetProblemSizes(n, prob.ncon, w, prob.nwblock)
  \/ GetMPIComm
  \/ CreateDesignVec
  \/ CreateConstraintVec
  \/ \E v \in Ids : FillVec(v)
  \/ \E x \in Ids, zw \in Ids, hdiag \in Ids : EvalHessianDiag(x, zw, hdiag)
  \/ \E x \in Ids, zw \in Ids : SetUpHessianPrecon(x, zw)
  \/ \E x \in Ids, zw \in Ids, in \in Ids, out \in Ids :
       ApplyHessianPrecon(x, zw, in, out)
  \/ \E iter \in 0..1, x \in Ids : WriteOutput(iter, x)

SpecVec == InitVec /\ [][NextVec]_vars

----------------------------------------------------------------------------
(* An Engine run on the problem.  The Engine is not part of the sources:   *)
(* it is modelled from the specification's call order (size query, then    *)
(* vector creation through the factory, then the iterations).  The problem *)
(* stays reachable to its owner, who may call setProblemSizes at any time. *)

\* the run starts: the Engine queries the sizes and creates its design
\* vector x
EngineStart ==
  /\ eng.run = "idle"
  /\ Len(vecs) < MaxVecs
  /\ LET o == getProblemSizes(prob, outs, AllOutputs)
         r == createDesignVec(Mem(prob, vecs, z))
     IN  /\ outs' = o
         /\ prob' = r.st.prob /\ vecs' = r.st.vecs /\ z' = r.st.z
         /\ ret' = r.ret
         /\ eng' = [run |-> "active", sizes |-> o, x |-> r.ret, design |-> {r.ret}]
  /\ last' = [op |-> "engineStart", args |-> <<>>]
  /\ UNCHANGED <<hist, sp>>

\* an iteration creates one more design vector
EngineCreateDesignVec ==
  /\ eng.run = "active"
  /\ Len(vecs) < MaxVecs
  /\ LET r == createDesignVec(Mem(prob, vecs, z))
     IN  /\ prob' = r.st.prob /\ vecs' = r.st.vecs /\ z' = r.st.z
         /\ ret' = r.ret
         /\ eng' = [eng EXCEPT !.design = @ \cup {r.ret}]
  /\ last' = [op |-> "createDesignVec", args |-> <<>>]
  /\ UNCHANGED <<outs, hist, sp>>

\* the run ends: the Engine releases the vectors it owns
EngineStop ==
  /\ eng.run = "active"
  /\ eng' = [run |-> "idle", sizes |-> <<>>, x |-> 0, design |-> {}]
  /\ vecs' = <<>>
  /\ ret' = Void
  /\ last' = [op |-> "engineStop", args |-> <<>>]
  /\ UNCHANGED <<prob, z, outs, hist, sp>>

NextRun ==
  \/ \E n \in LenVals, w \in LenVals :
       SetProblemSizes(n, prob.ncon, w, prob.nwblock)
  \/ EngineStart
  \/ EngineCreateDesignVec
  \/ EngineStop

SpecRun == InitVec /\ [][NextRun]_vars

----------------------------------------------------------------------------
(* The sparse accumulate operations.  The class declares them pure         *)
(* virtual; what an override does is modelled from the specification:      *)
(* out += alpha*J(x)*px, out += alpha*J(x)^T*pzw and                       *)
(* A += alpha*J(x)*diag(cvec)*J(x)^T with one 1 x 1 block per sparse       *)
(* constraint.  Scalars are exact: alpha and the entries of a destination  *)
(* are counted in halves, so that alpha = 1 stands for 0.5.                *)

\* the concrete problem: two design variables, two sparse constraints
\* cw1(x) = x1*x2 and cw2(x) = x1 + x2, whose Jacobian is J(x)
J(x) == << <<x[2], x[1]>>, <<1, 1>> >>

\* an overriding addSparseJacobian that stores instead of adding
addSparseJacobian_stores(alpha, x, px, out) ==
  [i \in 1..2 |-> alpha * (J(x)[i][1] * px[1] + J(x)[i][2] * px[2])]

\* virtual void addSparseJacobian( alpha, x, px, out ) = 0
addSparseJacobian(alpha, x, px, out) ==
  [i \in 1..2 |-> out[i] + alpha * (J(x)[i][1] * px[1] + J(x)[i][2] * px[2])]

\* virtual void addSparseJacobianTranspose( alpha, x, pzw, out ) = 0
addSparseJacobianTranspose(alpha, x, pzw, out) ==
  [j \in 1..2 |-> out[j] + alpha * (J(x)[1][j] * pzw[1] + J(x)[2][j] * pzw[2])]

\* virtual void addSparseInnerProduct( alpha, x, cvec, A ) = 0
addSparseInnerProduct(alpha, x, cvec, A) ==
  [i \in 1..2 |-> A[i] + alpha * (J(x)[i][1] * cvec[1] * J(x)[i][1]
                                  + J(x)[i][2] * cvec[2] * J(x)[i][2])]

SparseOps == {"addSparseJacobian", "addSparseJacobianTranspose", "addSparseInnerProduct"}

\* what operation op leaves in destination d for alpha, x and p
SparseResult(op, alpha, x, p, d) ==
  CASE op = "addSparseJacobian"          -> addSparseJacobian(alpha, x, p, d)
    [] op = "addSparseJacobianTranspose" -> addSparseJacobianTranspose(alpha, x, p, d)
    [] op = "addSparseInnerProduct"      -> addSparseInnerProduct(alpha, x, p, d)

\* |alpha| <= MaxAlpha, and so is the sum of the alphas of one accumulation
MaxAlpha == 2

Alphas == (0 - MaxAlpha)..MaxAlpha

Points == [1..2 -> 0..1]

\* the Engine takes a destination buffer holding d and fixes x and the
\* direction / weight vector p for the calls that follow
SparseBegin(op, x, p, d) ==
  /\ sp' = [op |-> op, x |-> x, p |-> p, base |-> d, dst |-> d, pre |-> d, asum |-> 0]
  /\ ret' = Void
  /\ last' = [op |-> "begin", args |-> <<>>]
  /\ UNCHANGED <<prob, vecs, z, outs, hist, eng>>

\* one call of the operation in progress, with alpha
SparseCall(op, alpha) ==
  /\ sp.op = op
  /\ sp.asum + alpha \in Alphas
  /\ sp' = [sp EXCEPT !.dst = SparseResult(op, alpha, sp.x, sp.p, sp.dst),
                       !.pre = sp.dst,
                       !.asum = @ + alpha]
  /\ ret' = Void
  /\ last' = [op |-> op, args |-> <<alpha>>]
  /\ UNCHANGED <<prob, vecs, z, outs, hist, eng>>

AddSparseJacobian(alpha) == SparseCall("addSparseJacobian", alpha)

AddSparseJacobianTranspose(alpha) == SparseCall("addSparseJacobianTranspose", alpha)

AddSparseInnerProduct(alpha) == SparseCall("addSparseInnerProduct", alpha)

InitSparse ==
  /\ InitCommon
  /\ \E c \in Comms :
       /\ prob = ParOptProblem5(c, 2, 0, 2, 1)
       /\ hist = [comm |-> c, by |-> "ctor5", sizes |-> <<2, 0, 2, 1>>]

NextSparse ==
  \/ \E op \in SparseOps, x \in Points, p \in Points, d \in Points :
       SparseBegin(op, <<x[1], x[2]>>, <<p[1], p[2]>>, <<d[1], d[2]>>)
  \/ \E alpha \in Alphas : AddSparseJacobian(alpha)
  \/ \E alpha \in Alphas : AddSparseJacobianTranspose(alpha)
  \/ \E alpha \in Alphas : AddSparseInnerProduct(alpha)

SpecSparse == InitSparse /\ [][NextSparse]_vars

----------------------------------------------------------------------------
(* Properties of the size bookkeeping (Spec) *)

\* C1: the object holds exactly the sizes last declared by a constructor or
\* by setProblemSizes, whatever was called since, and a getProblemSizes
\* with four non-null outputs leaves those four values in the caller's
\* ints, each in its own position.
C1_SizeRoundTrip ==
  /\ Sizes(prob) = hist.sizes
  /\ (last.op = "getProblemSizes" /\ last.args = AllOutputs) => outs = hist.sizes

\* a full query after setProblemSizes declared sizes that tell positions apart
C1_Witness ==
  /\ last.op = "getProblemSizes" /\ last.args = AllOutputs
  /\ hist.by = "set"
  /\ outs[1] # outs[2] /\ outs[2] # outs[3] /\ outs[3] # outs[4]

\* C10: a getProblemSizes step writes the current size to each non-null
\* output, leaves each null output's int as it was, and changes neither the
\* object nor the history; on a problem built by the one-argument
\* constructor and never given sizes, every size written is 0.
C10_GetProblemSizesPure ==
  [][ last'.op = "getProblemSizes" =>
        /\ \A i \in 1..4 :
             outs'[i] = IF last'.args[i] = 1 THEN Sizes(prob)[i] ELSE outs[i]
        /\ prob' = prob /\ vecs' = vecs /\ z' = z
        /\ (hist.by = "ctor1" =>
              \A i \in 1..4 : last'.args[i] = 1 => outs'[i] = 0) ]_vars

\* a query with a null and a non-null output, the null one's int still
\* holding an earlier value that is no longer the current size
C10_Witness ==
  /\ last.op = "getProblemSizes"
  /\ \E i \in 1..4, j \in 1..4 :
       /\ last.args[i] = 0 /\ outs[i] # Unset /\ outs[i] # Sizes(prob)[i]
       /\ last.args[j] = 1 /\ outs[j] = Sizes(prob)[j]

----------------------------------------------------------------------------
(* Properties of the factory and the default hooks (SpecVec) *)

IsCreate(op) == op \in {"createDesignVec", "createConstraintVec"}

\* C2: a createDesignVec / createConstraintVec step returns a vector that
\* did not exist before, of length nvars / nwcon as the object holds them
\* at the call, bound to the object's communicator; it leaves every
\* existing vector and the object (its sizes included) as they were.
C2_DefaultVectorFactory ==
  [][ IsCreate(last'.op) =>
        /\ ret' \notin DOMAIN vecs
        /\ DOMAIN vecs' = DOMAIN vecs \cup {ret'}
        /\ vecs'[ret'].size =
             (IF last'.op = "createDesignVec" THEN prob.nvars ELSE prob.nwcon)
        /\ Len(vecs'[ret'].x) = vecs'[ret'].size
        /\ vecs'[ret'].comm = prob.comm
        /\ \A v \in DOMAIN vecs : vecs'[v] = vecs[v]
        /\ prob' = prob /\ z' = z ]_vars

\* a second vector was just created as a constraint vector, of a length
\* that differs from the design length
C2_Witness ==
  /\ last.op = "createConstraintVec"
  /\ ret = 2 /\ Len(vecs) = 2
  /\ vecs[2].size = prob.nwcon /\ prob.nwcon # prob.nvars
  /\ vecs[1].size = prob.nvars

\* C3: an applyHessianPrecon step on in and out of the same length returns
\* 0 and leaves out's entries equal to in's, entry by entry; every other
\* vector (in, and whatever x and zw are), z and the object are unchanged.
\* This holds of every such step, whether or not a setUpHessianPrecon or
\* another applyHessianPrecon came before.
C3_ApplyHessianPreconIdentity ==
  [][ (/\ last'.op = "applyHessianPrecon"
       /\ vecs[last'.args[1]].size = vecs[last'.args[2]].size) =>
        /\ ret' = 0
        /\ vecs'[last'.args[2]].x = vecs[last'.args[1]].x
        /\ vecs'[last'.args[2]].size = vecs[last'.args[2]].size
        /\ vecs'[last'.args[2]].comm = vecs[last'.args[2]].comm
        /\ DOMAIN vecs' = DOMAIN vecs
        /\ \A v \in DOMAIN vecs : v # last'.args[2] => vecs'[v] = vecs[v]
        /\ prob' = prob /\ z' = z ]_vars

\* out was copied from a distinct, non-empty, non-zero in
C3_Witness ==
  /\ last.op = "applyHessianPrecon" /\ ret = 0
  /\ last.args[1] # last.args[2]
  /\ vecs[last.args[1]].size > 0
  /\ vecs[last.args[1]].x = [i \in 1..vecs[last.args[1]].size |-> i]
  /\ vecs[last.args[2]].x = vecs[last.args[1]].x

\* C4: an evalHessianDiag step returns 0 and leaves hdiag, every other
\* vector, z and the object exactly as they were.
C4_EvalHessianDiagUntouched ==
  [][ last'.op = "evalHessianDiag" =>
        ret' = 0 /\ vecs' = vecs /\ z' = z /\ prob' = prob ]_vars

\* evalHessianDiag returned on an hdiag that holds non-zero entries
C4_Witness ==
  /\ last.op = "evalHessianDiag" /\ ret = 0
  /\ vecs[last.args[1]].size > 0
  /\ vecs[last.args[1]].x = [i \in 1..vecs[last.args[1]].size |-> i]

\* C5: a setUpHessianPrecon step returns 0, a writeOutput step returns
\* (nothing), and neither changes a vector, z or the object.
C5_OptionalHooksNoOp ==
  [][ last'.op \in {"setUpHessianPrecon", "writeOutput"} =>
        /\ ret' = (IF last'.op = "setUpHessianPrecon" THEN 0 ELSE Void)
        /\ vecs' = vecs /\ z' = z /\ prob' = prob ]_vars

\* setUpHessianPrecon returned 0 on a non-zero x
C5_Witness ==
  /\ last.op = "setUpHessianPrecon" /\ ret = 0
  /\ vecs[last.args[1]].size > 0
  /\ vecs[last.args[1]].x = [i \in 1..vecs[last.args[1]].size |-> i]

\* C6: the object's communicator is the one its constructor was given,
\* getMPIComm returns it, and every vector of the factory is bound to it.
C6_ProcessGroupFixed ==
  /\ prob.comm = hist.comm
  /\ (last.op = "getMPIComm" => ret = hist.comm)
  /\ \A v \in DOMAIN vecs : vecs[v].comm = hist.comm

\* getMPIComm was called after the sizes were declared again and vectors
\* of both kinds were created
C6_Witness ==
  /\ last.op = "getMPIComm" /\ ret = hist.comm
  /\ hist.by = "set"
  /\ Len(vecs) = 2 /\ vecs[1].size # vecs[2].size

\* C8: an applyHessianPrecon call whose in and out differ in length, or are
\* not of length nvars, does not return success.
C8_ConfigurationErrorDetected ==
  (/\ last.op = "applyHessianPrecon"
   /\ \/ vecs[last.args[1]].size # vecs[last.args[2]].size
      \/ vecs[last.args[1]].size # prob.nvars
      \/ vecs[last.args[2]].size # prob.nvars)
    => ret # 0

----------------------------------------------------------------------------
(* Properties of an Engine run (SpecRun) *)

\* C7: while a run is active the object holds the sizes the Engine queried
\* at its start, and every design vector created during the run has the
\* length of the one created at its start.
C7_SizesFixedDuringRun ==
  eng.run = "active" =>
    /\ Sizes(prob) = eng.sizes
    /\ \A v \in eng.design : vecs[v].size = vecs[eng.x].size

----------------------------------------------------------------------------
(* Properties of the sparse accumulate operations (SpecSparse) *)

====
